---- MODULE Spec2Model ----
(***************************************************************************)
(* Model of the two MNIST tutorial notebooks: the PyTorch notebook          *)
(* (loaders, CNN, train(), test()) and the TensorFlow notebook (train_ds /  *)
(* test_ds, train_step, test_step, the epoch loop).                         *)
(*                                                                          *)
(* Numeric tensors are abstracted: Model Parameters and Optimizer State are *)
(* version counters (number of optimizer updates applied), a loss value is  *)
(* the triple <<epoch, step, parameter version>> it was computed from, and  *)
(* the stored gradient is the sequence of losses whose backward pass has    *)
(* been accumulated into it since the last clearing.                        *)
(***************************************************************************)
EXTENDS Integers, Sequences, FiniteSets, TLC

\* ---------------------------------------------------------------- bounds
MaxEpochs == 2        \* largest num_epochs passed to train()
MaxSteps == 101       \* largest len(loaders['train'])
MaxTestN == 4         \* largest test partition
MaxBatch == 2         \* largest batch_size of the test loader (the notebook's
                      \* 100, scaled down together with the partition)
MaxTests == 2         \* test() calls per session
MaxDs == 3            \* largest number of batches of train_ds / test_ds
MaxN == 4             \* largest partition handed to a Batch Provider
MaxB == 3             \* largest batch_size handed to a Batch Provider
MaxTraversals == 2    \* traversals of one Batch Provider
MaxK == 16            \* largest batch fed to CNN.forward

\* ------------------------------------------------------- program constants
ReportEvery == 100    \* (i+1) % 100 == 0
EPOCHS == 5           \* EPOCHS = 5

VARIABLES
    pc,          \* position of the PyTorch notebook's control flow
    mode,        \* cnn.training: "train" after cnn.train(), "eval" after cnn.eval()
    params,      \* Model Parameters of cnn (version)
    optimizer,   \* Optimizer State of Adam (number of steps taken)
    grad,        \* .grad of the parameters: losses accumulated by backward()
    fitSrc,      \* partitions whose batches have been applied to params
    num_epochs, total_step, epoch, i, loss,   \* locals of train()
    trainLog,    \* <<epoch, step>> of every optimizer update of the train() call
    out,         \* progress lines printed by train()
    trained,     \* train() has been called in this session (the notebook
                 \* calls it once; test() may run before and after it)
    testN, batch_size, j,                      \* test loader and its iterator
    correct, total, accuracy,                  \* locals of test()
    aggCorrect, aggTotal,                      \* samples seen by the test() call
    printed,     \* what the test() call printed or raised
    tests,       \* number of test() calls so far
    last,        \* the call that is running or has returned last
    entry        \* params and optimizer as they stood when that call began

torchVars == <<pc, mode, params, optimizer, grad, fitSrc, num_epochs, total_step,
               epoch, i, loss, trainLog, out, trained, testN, batch_size, j,
               correct, total, accuracy, aggCorrect, aggTotal, printed, tests,
               last, entry>>

VARIABLES
    tfpc,        \* position of the TensorFlow notebook's epoch loop
    tfEpoch,     \* epoch of range(EPOCHS)
    tfTrainLen, tfTestLen,      \* number of batches of train_ds and of test_ds
    tfi,         \* batches of the current traversal already taken
    train_loss, train_accuracy, test_loss, test_accuracy,   \* metric objects
    tfParams,    \* model.trainable_variables (version)
    tfOptimizer, \* state of tf.keras.optimizers.Adam (number of steps)
    tfFit,       \* datasets whose batches have been applied to tfParams
    tfOut        \* lines printed at the end of the epochs

tfVars == <<tfpc, tfEpoch, tfTrainLen, tfTestLen, tfi, train_loss, train_accuracy,
            test_loss, test_accuracy, tfParams, tfOptimizer, tfFit, tfOut>>

VARIABLES
    ldpc,        \* position of a DataLoader / tf.data traversal
    ldN,         \* number of samples of the partition (samples are 1..ldN)
    ldB,         \* batch_size
    ldShuffle,   \* shuffle flag
    ldOrder,     \* sample order of the current traversal
    ldPos,       \* samples of that order already handed out
    ldYield,     \* batches handed out by the current traversal
    ldEpoch      \* traversals completed

ldVars == <<ldpc, ldN, ldB, ldShuffle, ldOrder, ldPos, ldYield, ldEpoch>>

VARIABLES
    shpc,        \* next stage of CNN.forward
    x,           \* shape of the tensor x in CNN.forward
    shErr        \* shape error raised by a layer, or "none"

shVars == <<shpc, x, shErr>>

vars == <<torchVars, tfVars, ldVars, shVars>>
notTorch == <<tfVars, ldVars, shVars>>
notTF == <<torchVars, ldVars, shVars>>
notLoader == <<torchVars, tfVars, shVars>>
notShape == <<torchVars, tfVars, ldVars>>

trainLocals == <<num_epochs, total_step, epoch, i, loss, trainLog, out>>
testLocals == <<testN, batch_size, j, correct, total, accuracy, aggCorrect, aggTotal,
                printed>>
session == <<trained, tests, last, entry>>
modelState == <<params, optimizer, grad, fitSrc>>

Unbound == <<>>       \* a local name that has not been assigned
NoOutput == [kind |-> "none"]

\* ------------------------------------------------------------ PyTorch init
TorchFresh ==
    /\ mode = "train"          \* nn.Module is constructed in training mode
    /\ params = 0
    /\ optimizer = 0
    /\ grad = <<>>
    /\ fitSrc = {}
    /\ num_epochs = 0 /\ total_step = 0 /\ epoch = 0 /\ i = 0
    /\ loss = Unbound
    /\ trainLog = <<>>
    /\ out = <<>>
    /\ trained = FALSE
    /\ testN = 0 /\ batch_size = 1 /\ j = 0
    /\ correct = 0 /\ total = 0
    /\ accuracy = Unbound
    /\ aggCorrect = 0 /\ aggTotal = 0
    /\ printed = NoOutput
    /\ tests = 0
    /\ last = "none"
    /\ entry = <<0, 0>>

TorchInit == pc = "idle" /\ TorchFresh
TorchOff == pc = "off" /\ TorchFresh

\* the locals and the output of a call that returned earlier are gone
TrainLocalsGone ==
    /\ num_epochs' = 0 /\ total_step' = 0 /\ epoch' = 0 /\ i' = 0
    /\ loss' = Unbound
    /\ trainLog' = <<>>
    /\ out' = <<>>

TestLocalsGone ==
    /\ testN' = 0 /\ batch_size' = 1 /\ j' = 0
    /\ correct' = 0 /\ total' = 0
    /\ accuracy' = Unbound
    /\ aggCorrect' = 0 /\ aggTotal' = 0
    /\ printed' = NoOutput

\* ------------------------------------------------------------------ train()
\* train(num_epochs, cnn, loaders): cnn.train(); total_step = len(loaders['train'])
TrainCall ==
    /\ pc = "idle"
    /\ ~trained
    /\ \E E \in 0..MaxEpochs, S \in 1..MaxSteps :
          /\ num_epochs' = E
          /\ total_step' = S
    /\ mode' = "train"
    /\ epoch' = 0
    /\ i' = 0
    /\ loss' = Unbound
    /\ trainLog' = <<>>
    /\ out' = <<>>
    /\ trained' = TRUE
    /\ last' = "train"
    /\ entry' = <<params, optimizer>>
    /\ pc' = "epoch_head"
    /\ TestLocalsGone
    /\ UNCHANGED notTorch
    /\ UNCHANGED <<modelState, tests>>

\* for epoch in range(num_epochs):
RangeHasNextInclusive(e, n) == e <= n

RangeHasNext(e, n) == e < n

TrainEpochHead ==
    /\ pc = "epoch_head"
    /\ IF RangeHasNext(epoch, num_epochs)
         THEN /\ i' = 0                       \* enumerate() of a fresh traversal
              /\ pc' = "batch_head"
         ELSE /\ i' = i
              /\ pc' = "idle"                 \* train() returns
    /\ UNCHANGED notTorch
    /\ UNCHANGED <<mode, modelState, num_epochs, total_step, epoch, loss,
                   trainLog, out, session, testLocals>>

\* the same loop head, leaving the traversal one batch early
TrainBatchHeadSkipsLast ==
    /\ pc = "batch_head"
    /\ IF i + 1 < total_step
         THEN /\ pc' = "forward"
              /\ epoch' = epoch
         ELSE /\ pc' = "epoch_head"
              /\ epoch' = epoch + 1
    /\ UNCHANGED notTorch
    /\ UNCHANGED <<mode, modelState, num_epochs, total_step, i, loss,
                   trainLog, out, session, testLocals>>

\* for i, (images, labels) in enumerate(loaders['train']):
TrainBatchHead ==
    /\ pc = "batch_head"
    /\ IF i < total_step
         THEN /\ pc' = "forward"
              /\ epoch' = epoch
         ELSE /\ pc' = "epoch_head"           \* traversal exhausted
              /\ epoch' = epoch + 1
    /\ UNCHANGED notTorch
    /\ UNCHANGED <<mode, modelState, num_epochs, total_step, i, loss,
                   trainLog, out, session, testLocals>>

\* output = cnn(b_x)[0]; loss = loss_func(output, b_y)
LossOf(e, s, p) == <<e, s, p>>

TrainForward ==
    /\ pc = "forward"
    /\ loss' = LossOf(epoch + 1, i + 1, params)
    /\ pc' = "zero_grad"
    /\ UNCHANGED notTorch
    /\ UNCHANGED <<mode, modelState, num_epochs, total_step, epoch, i,
                   trainLog, out, session, testLocals>>

\* optimizer.zero_grad()
ZeroGradKeeps(g) == g

ZeroGrad(g) == <<>>

TrainZeroGrad ==
    /\ pc = "zero_grad"
    /\ grad' = ZeroGrad(grad)
    /\ pc' = "backward"
    /\ UNCHANGED notTorch
    /\ UNCHANGED <<mode, params, optimizer, fitSrc, trainLocals, session,
                   testLocals>>

\* loss.backward(): accumulates into .grad
Backward(g, l) == Append(g, l)

TrainBackward ==
    /\ pc = "backward"
    /\ grad' = Backward(grad, loss)
    /\ pc' = "step"
    /\ UNCHANGED notTorch
    /\ UNCHANGED <<mode, params, optimizer, fitSrc, trainLocals, session,
                   testLocals>>

\* optimizer.step()
TrainStep ==
    /\ pc = "step"
    /\ params' = params + 1
    /\ optimizer' = optimizer + 1
    /\ fitSrc' = fitSrc \cup {"train"}
    /\ trainLog' = Append(trainLog, <<epoch + 1, i + 1>>)
    /\ pc' = "report"
    /\ UNCHANGED notTorch
    /\ UNCHANGED <<mode, grad, num_epochs, total_step, epoch, i, loss, out,
                   session, testLocals>>

\* if (i+1) % 100 == 0: print('Epoch [{}/{}], Step [{}/{}], Loss: {:.4f}' ...)
ShouldReportZeroBased(n) == n % ReportEvery = 0

ShouldReport(n) == (n + 1) % ReportEvery = 0

ProgressLine == [epoch |-> epoch + 1, num_epochs |-> num_epochs,
                 step |-> i + 1, total_step |-> total_step, loss |-> loss]

TrainReport ==
    /\ pc = "report"
    /\ out' = IF ShouldReport(i) THEN Append(out, ProgressLine) ELSE out
    /\ i' = i + 1
    /\ pc' = "batch_head"
    /\ UNCHANGED notTorch
    /\ UNCHANGED <<mode, modelState, num_epochs, total_step, epoch, loss,
                   trainLog, session, testLocals>>

\* ------------------------------------------------------------------- test()
\* len(loaders['test']) for a DataLoader with the default drop_last=False
NumBatches(n, b) == (n + b - 1) \div b

\* labels.size(0) of the k-th batch (1-based) of a traversal
BatchLen(n, b, k) == IF k * b <= n THEN b ELSE n - (k - 1) * b

\* '%.3f' % (c / float(n)): thousandths, round-half-to-even
Fmt3(c, n) ==
    LET q == (1000 * c) \div n
        r == (1000 * c) % n
    IN  IF 2 * r > n \/ (2 * r = n /\ q % 2 = 1) THEN q + 1 ELSE q

\* test(): cnn.eval(); with torch.no_grad(): correct = 0; total = 0
TestCall ==
    /\ pc = "idle"
    /\ tests < MaxTests
    /\ \E n \in 0..MaxTestN, b \in 1..MaxBatch :
          /\ testN' = n
          /\ batch_size' = b
    /\ mode' = "eval"
    /\ correct' = 0
    /\ total' = 0
    /\ accuracy' = Unbound
    /\ j' = 0
    /\ aggCorrect' = 0
    /\ aggTotal' = 0
    /\ printed' = NoOutput
    /\ tests' = tests + 1
    /\ last' = "test"
    /\ entry' = <<params, optimizer>>
    /\ pc' = "test_loop"
    /\ TrainLocalsGone
    /\ UNCHANGED notTorch
    /\ UNCHANGED <<modelState, trained>>

\* accuracy = (pred_y == labels).sum().item() / float(labels.size(0))
BatchAccuracy(acc, c, n) == <<c, n>>

\* the same iteration with an optimizer update on the test batch
TestBatchFits ==
    /\ pc = "test_loop"
    /\ j < NumBatches(testN, batch_size)
    /\ LET n == BatchLen(testN, batch_size, j + 1) IN
         \E c \in 0..n :
            /\ accuracy' = BatchAccuracy(accuracy, c, n)
            /\ aggCorrect' = aggCorrect + c
            /\ aggTotal' = aggTotal + n
    /\ j' = j + 1
    /\ params' = params + 1
    /\ optimizer' = optimizer + 1
    /\ fitSrc' = fitSrc \cup {"test"}
    /\ UNCHANGED notTorch
    /\ UNCHANGED <<pc, mode, grad, trainLocals, session, testN, batch_size,
                   correct, total, printed>>

\* one iteration of: for images, labels in loaders['test']
TestBatch ==
    /\ pc = "test_loop"
    /\ j < NumBatches(testN, batch_size)
    /\ LET n == BatchLen(testN, batch_size, j + 1) IN
         \E c \in 0..n :                       \* (pred_y == labels).sum()
            /\ accuracy' = BatchAccuracy(accuracy, c, n)
            /\ aggCorrect' = aggCorrect + c
            /\ aggTotal' = aggTotal + n
    /\ j' = j + 1
    /\ UNCHANGED notTorch
    /\ UNCHANGED <<pc, mode, modelState, trainLocals, session, testN, batch_size,
                   correct, total, printed>>

\* print('Test Accuracy of the model on the 10000 test images: %.3f' % accuracy)
TestPrint ==
    /\ pc = "test_loop"
    /\ j = NumBatches(testN, batch_size)
    /\ printed' = IF accuracy = Unbound
                    THEN [kind |-> "error", error |-> "UnboundLocalError"]
                    ELSE [kind |-> "accuracy", value |-> Fmt3(accuracy[1], accuracy[2])]
    /\ pc' = "idle"
    /\ UNCHANGED notTorch
    /\ UNCHANGED <<mode, modelState, trainLocals, session, testN, batch_size, j,
                   correct, total, accuracy, aggCorrect, aggTotal>>

TorchNext ==
    \/ TrainCall
    \/ TrainEpochHead
    \/ TrainBatchHead
    \/ TrainForward
    \/ TrainZeroGrad
    \/ TrainBackward
    \/ TrainStep
    \/ TrainReport
    \/ TestCall
    \/ TestBatch
    \/ TestPrint

\* ------------------------------------------------------ TensorFlow notebook
\* the notebook's cells have run up to the epoch loop
TFFresh ==
    /\ tfEpoch = 0
    /\ tfi = 0
    /\ train_loss = <<>> /\ train_accuracy = <<>>
    /\ test_loss = <<>> /\ test_accuracy = <<>>
    /\ tfParams = 0
    /\ tfOptimizer = 0
    /\ tfFit = {}
    /\ tfOut = <<>>

TFInit ==
    /\ tfpc = "epoch_head"
    /\ tfTrainLen \in 1..MaxDs
    /\ tfTestLen \in 1..MaxDs
    /\ TFFresh

TFOff == tfpc = "off" /\ tfTrainLen = 1 /\ tfTestLen = 1 /\ TFFresh

\* metric.reset_states()
ResetStatesKeeps(m) == m

ResetStates(m) == <<>>

\* metric(value): one more value in the running aggregate
UpdateState(m, v) == Append(m, v)

\* for epoch in range(EPOCHS): the four reset_states() calls
TFEpochHead ==
    /\ tfpc = "epoch_head"
    /\ IF tfEpoch < EPOCHS
         THEN /\ train_loss' = ResetStates(train_loss)
              /\ train_accuracy' = ResetStates(train_accuracy)
              /\ test_loss' = ResetStates(test_loss)
              /\ test_accuracy' = ResetStates(test_accuracy)
              /\ tfi' = 0
              /\ tfpc' = "train_loop"
         ELSE /\ UNCHANGED <<train_loss, train_accuracy, test_loss, test_accuracy, tfi>>
              /\ tfpc' = "done"
    /\ UNCHANGED <<tfEpoch, tfTrainLen, tfTestLen, tfParams, tfOptimizer, tfFit, tfOut>>
    /\ UNCHANGED notTF

\* for images, labels in train_ds: train_step(images, labels)
TFTrainStep ==
    /\ tfpc = "train_loop"
    /\ tfi < tfTrainLen
    /\ LET l == LossOf(tfEpoch + 1, tfi + 1, tfParams) IN
          /\ tfParams' = tfParams + 1            \* optimizer.apply_gradients
          /\ tfOptimizer' = tfOptimizer + 1
          /\ tfFit' = tfFit \cup {"train_ds"}
          /\ train_loss' = UpdateState(train_loss, <<"train_ds", l>>)
          /\ train_accuracy' = UpdateState(train_accuracy, <<"train_ds", l>>)
    /\ tfi' = tfi + 1
    /\ UNCHANGED <<tfpc, tfEpoch, tfTrainLen, tfTestLen, test_loss, test_accuracy, tfOut>>
    /\ UNCHANGED notTF

\* train_ds is exhausted: on to the loop over test_ds
TFTrainDone ==
    /\ tfpc = "train_loop"
    /\ tfi = tfTrainLen
    /\ tfi' = 0
    /\ tfpc' = "test_loop"
    /\ UNCHANGED <<tfEpoch, tfTrainLen, tfTestLen, train_loss, train_accuracy,
                   test_loss, test_accuracy, tfParams, tfOptimizer, tfFit, tfOut>>
    /\ UNCHANGED notTF

\* for test_images, test_labels in test_ds: test_step(test_images, test_labels)
TFTestStep ==
    /\ tfpc = "test_loop"
    /\ tfi < tfTestLen
    /\ LET l == LossOf(tfEpoch + 1, tfi + 1, tfParams) IN
          /\ test_loss' = UpdateState(test_loss, <<"test_ds", l>>)
          /\ test_accuracy' = UpdateState(test_accuracy, <<"test_ds", l>>)
    /\ tfi' = tfi + 1
    /\ UNCHANGED <<tfpc, tfEpoch, tfTrainLen, tfTestLen, train_loss, train_accuracy,
                   tfParams, tfOptimizer, tfFit, tfOut>>
    /\ UNCHANGED notTF

\* print(f'Epoch {epoch + 1}, Loss: ..., Accuracy: ..., Test Loss: ..., Test Accuracy: ...')
TFPrint ==
    /\ tfpc = "test_loop"
    /\ tfi = tfTestLen
    /\ tfOut' = Append(tfOut, [epoch |-> tfEpoch + 1,
                               loss |-> train_loss,
                               accuracy |-> train_accuracy,
                               test_loss |-> test_loss,
                               test_accuracy |-> test_accuracy])
    /\ tfEpoch' = tfEpoch + 1
    /\ tfpc' = "epoch_head"
    /\ UNCHANGED <<tfTrainLen, tfTestLen, tfi, train_loss, train_accuracy,
                   test_loss, test_accuracy, tfParams, tfOptimizer, tfFit>>
    /\ UNCHANGED notTF

TFNext ==
    \/ TFEpochHead
    \/ TFTrainStep
    \/ TFTrainDone
    \/ TFTestStep
    \/ TFPrint

\* ------------------------------------------------------------ Batch Provider
\* torch.utils.data.DataLoader(data, batch_size=B, shuffle=...) with the default
\* drop_last=False; tf.data ...shuffle(10000).batch(B) with the default
\* drop_remainder=False.
Identity(n) == [k \in 1..n |-> k]

Orders(n) == {f \in [1..n -> 1..n] : \A a, b \in 1..n : f[a] = f[b] => a = b}

\* order of one traversal: a fresh random order when shuffling, else storage order
SampleOrder(n, shuffle) == IF shuffle THEN Orders(n) ELSE {Identity(n)}

\* drop_last=False: a batch is produced as long as a sample is left
HasNextBatchDropLast(pos, b, n) == pos + b <= n

HasNextBatch(pos, b, n) == pos < n

Min(a, b) == IF a < b THEN a ELSE b

LoaderFresh ==
    /\ ldOrder = <<>>
    /\ ldPos = 0
    /\ ldYield = <<>>
    /\ ldEpoch = 0

LoaderInit ==
    /\ ldpc = "ready"
    /\ ldN \in 1..MaxN
    /\ ldB \in 1..MaxB
    /\ ldShuffle \in BOOLEAN
    /\ LoaderFresh

LoaderOff == ldpc = "off" /\ ldN = 1 /\ ldB = 1 /\ ldShuffle = FALSE /\ LoaderFresh

\* iter(loader): a new traversal begins
LoaderIter ==
    /\ ldpc = "ready"
    /\ ldEpoch < MaxTraversals
    /\ ldOrder' \in SampleOrder(ldN, ldShuffle)
    /\ ldPos' = 0
    /\ ldYield' = <<>>
    /\ ldpc' = "iterating"
    /\ UNCHANGED <<ldN, ldB, ldShuffle, ldEpoch>>
    /\ UNCHANGED notLoader

\* next(iterator): the next batch_size samples, or those that are left
LoaderBatch ==
    /\ ldpc = "iterating"
    /\ HasNextBatch(ldPos, ldB, ldN)
    /\ LET end == Min(ldPos + ldB, ldN) IN
          /\ ldYield' = Append(ldYield, SubSeq(ldOrder, ldPos + 1, end))
          /\ ldPos' = end
    /\ UNCHANGED <<ldpc, ldN, ldB, ldShuffle, ldOrder, ldEpoch>>
    /\ UNCHANGED notLoader

\* StopIteration: the traversal is over
LoaderStop ==
    /\ ldpc = "iterating"
    /\ ~HasNextBatch(ldPos, ldB, ldN)
    /\ ldpc' = "ready"
    /\ ldEpoch' = ldEpoch + 1
    /\ UNCHANGED <<ldN, ldB, ldShuffle, ldOrder, ldPos, ldYield>>
    /\ UNCHANGED notLoader

LoaderNext ==
    \/ LoaderIter
    \/ LoaderBatch
    \/ LoaderStop

\* ------------------------------------------------------------------ CNN shapes
\* nn.Conv2d: floor((h + 2*padding - kernel_size) / stride) + 1
Conv2dOutNoPadding(h, k, st, p) == ((h - k) \div st) + 1

Conv2dOut(h, k, st, p) == ((h + 2 * p - k) \div st) + 1

\* nn.MaxPool2d(kernel_size): stride = kernel_size, no padding, floor
MaxPool2dOut(h, k) == ((h - k) \div k) + 1

\* nn.Conv2d(cin, cout, k, st, p) applied to a (K, C, H, W) tensor
Conv2d(t, cin, cout, k, st, p) ==
    IF Len(t) = 4 /\ t[2] = cin /\ t[3] + 2 * p >= k /\ t[4] + 2 * p >= k
      THEN <<t[1], cout, Conv2dOut(t[3], k, st, p), Conv2dOut(t[4], k, st, p)>>
      ELSE <<>>

\* nn.MaxPool2d(k) applied to a (K, C, H, W) tensor
MaxPool2d(t, k) ==
    IF Len(t) = 4 /\ t[3] >= k /\ t[4] >= k
      THEN <<t[1], t[2], MaxPool2dOut(t[3], k), MaxPool2dOut(t[4], k)>>
      ELSE <<>>

\* x.view(x.size(0), -1)
View(t) == <<t[1], t[2] * t[3] * t[4]>>

\* nn.Linear(fin, fout) applied to a (K, F) tensor
Linear(t, fin, fout) ==
    IF Len(t) = 2 /\ t[2] = fin THEN <<t[1], fout>> ELSE <<>>

\* a batch of K single-channel 28x28 images enters cnn(b_x)
ShapeInit ==
    /\ shpc = "conv1.0"
    /\ \E K \in 1..MaxK : x = <<K, 1, 28, 28>>
    /\ shErr = "none"

ShapeOff == shpc = "off" /\ x = <<>> /\ shErr = "none"

\* a layer either produces its output or raises; forward stops at the error
Stage(result, then) ==
    /\ IF result = <<>>
         THEN /\ shErr' = shpc
              /\ shpc' = "raised"
              /\ x' = x
         ELSE /\ shErr' = shErr
              /\ shpc' = then
              /\ x' = result
    /\ UNCHANGED notShape

\* self.conv1 = nn.Sequential(nn.Conv2d(1, 16, 5, 1, 2), nn.ReLU(), nn.MaxPool2d(2))
Conv1Conv ==
    /\ shpc = "conv1.0"
    /\ Stage(Conv2d(x, 1, 16, 5, 1, 2), "conv1.1")
Conv1ReLU ==
    /\ shpc = "conv1.1"
    /\ Stage(x, "conv1.2")
Conv1Pool ==
    /\ shpc = "conv1.2"
    /\ Stage(MaxPool2d(x, 2), "conv2.0")

\* self.conv2 = nn.Sequential(nn.Conv2d(16, 32, 5, 1, 2), nn.ReLU(), nn.MaxPool2d(2))
Conv2Conv ==
    /\ shpc = "conv2.0"
    /\ Stage(Conv2d(x, 16, 32, 5, 1, 2), "conv2.1")
Conv2ReLU ==
    /\ shpc = "conv2.1"
    /\ Stage(x, "conv2.2")
Conv2Pool ==
    /\ shpc = "conv2.2"
    /\ Stage(MaxPool2d(x, 2), "view")

\* x = x.view(x.size(0), -1)
Flatten ==
    /\ shpc = "view"
    /\ Stage(View(x), "out")

\* output = self.out(x) with self.out = nn.Linear(32 * 7 * 7, 10)
Out ==
    /\ shpc = "out"
    /\ Stage(Linear(x, 32 * 7 * 7, 10), "return")

ShapeNext ==
    \/ Conv1Conv
    \/ Conv1ReLU
    \/ Conv1Pool
    \/ Conv2Conv
    \/ Conv2ReLU
    \/ Conv2Pool
    \/ Flatten
    \/ Out

\* --------------------------------------------------------- the two notebooks
Init ==
    \/ TorchInit /\ TFOff /\ LoaderOff /\ ShapeOff
    \/ TorchOff /\ TFInit /\ LoaderOff /\ ShapeOff

Next == TorchNext \/ TFNext
Spec == Init /\ [][Next]_vars

\* The interpreter runs a started call to its end; nothing forces the user to
\* start one.
TorchRun ==
    \/ TrainEpochHead \/ TrainBatchHead \/ TrainForward \/ TrainZeroGrad
    \/ TrainBackward \/ TrainStep \/ TrainReport \/ TestBatch \/ TestPrint

FairSpec == Init /\ [][Next]_vars /\ WF_vars(TorchRun)

\* the Batch Provider on its own, for every small partition and batch size
InitLoader == LoaderInit /\ TorchOff /\ TFOff /\ ShapeOff

SpecLoader == InitLoader /\ [][LoaderNext]_vars

\* CNN.forward on its own, for every small batch
InitShape == ShapeInit /\ TorchOff /\ TFOff /\ LoaderOff

SpecShape == InitShape /\ [][ShapeNext]_vars

\* ================================================================== claims
TrainReturned == last = "train" /\ pc = "idle"
TestReturned == last = "test" /\ pc = "idle"

\* C1: test() reports the number of correct predictions over all test batches
\* divided by the number of samples over all test batches.
C1_AccuracyIsAggregate ==
    (TestReturned /\ aggTotal >= 1) =>
        printed = [kind |-> "accuracy", value |-> Fmt3(aggCorrect, aggTotal)]

\* The k-th optimizer update of a call that traverses S batches per epoch.
EpochMajor(k, S) == <<((k - 1) \div S) + 1, ((k - 1) % S) + 1>>

C2_Order ==
    last = "train" =>
        /\ trainLog = [k \in 1..Len(trainLog) |-> EpochMajor(k, total_step)]
        /\ params = entry[1] + Len(trainLog)
        /\ optimizer = entry[2] + Len(trainLog)
        /\ pc = "idle" => Len(trainLog) = num_epochs * total_step

\* C2: train() terminates after exactly E * S optimizer updates, one per batch,
\* in provider order, every batch of epoch e before any batch of epoch e+1.
C2_TrainRunsEveryBatchOnce ==
    /\ []C2_Order
    /\ (last = "train") ~> TrainReturned

C2_Witness ==
    /\ TrainReturned
    /\ num_epochs = 2 /\ total_step >= 2
    /\ Len(trainLog) = 2 * total_step

CeilDiv(n, b) == IF n % b = 0 THEN n \div b ELSE (n \div b) + 1

\* the batches in which sample a occurs, with its place in the batch
Places(a) == {<<k, m>> \in (1..Len(ldYield)) \X (1..ldB) :
                 m <= Len(ldYield[k]) /\ ldYield[k][m] = a}

TraversalOver == ldpc = "ready" /\ ldEpoch >= 1

\* C3: one traversal yields ceil(N/B) batches that partition the samples; all
\* but the last have B samples, the last has N mod B (B when B divides N);
\* with or without shuffling, in every traversal.
C3_BatchesPartitionTheData ==
    TraversalOver =>
        /\ Len(ldYield) = CeilDiv(ldN, ldB)
        /\ \A a \in 1..ldN : Cardinality(Places(a)) = 1
        /\ \A k \in 1..Len(ldYield) :
              /\ \A m \in 1..Len(ldYield[k]) : ldYield[k][m] \in 1..ldN
              /\ k < Len(ldYield) => Len(ldYield[k]) = ldB
              /\ k = Len(ldYield) =>
                    Len(ldYield[k]) = (IF ldN % ldB = 0 THEN ldB ELSE ldN % ldB)
              /\ Len(ldYield[k]) = BatchLen(ldN, ldB, k)
        /\ Len(ldYield) = NumBatches(ldN, ldB)

C3_Witness ==
    /\ TraversalOver
    /\ ldEpoch = 2 /\ ldShuffle
    /\ ldN = 4 /\ ldB = 3
    /\ ldYield = <<<<3, 1, 4>>, <<2>>>>

C4_Frame ==
    /\ last' = "test" =>
          /\ params' = params /\ optimizer' = optimizer /\ fitSrc' = fitSrc
          /\ <<params', optimizer'>> = entry'
    /\ <<params', optimizer'>> # <<params, optimizer>> =>
          pc = "step" /\ last = "train"
    /\ fitSrc' \subseteq {"train"}
    /\ tfpc = "test_loop" => tfParams' = tfParams /\ tfOptimizer' = tfOptimizer
    /\ <<tfParams', tfOptimizer'>> # <<tfParams, tfOptimizer>> =>
          tfpc = "train_loop" /\ tfi < tfTrainLen
    /\ tfFit' \subseteq {"train_ds"}

\* C4: parameters and optimizer state change only in the optimizer step of
\* train() (train_step in the TensorFlow notebook); test() and test_step leave
\* them as they were, and no test batch is ever fitted.
C4_TestLeavesModelUnchanged == [][C4_Frame]_vars

C4_Witness ==
    /\ TestReturned
    /\ j >= 2
    /\ params >= 2 /\ <<params, optimizer>> = entry

\* batches whose loop body has run to its end
Completed == IF pc = "report" THEN SubSeq(trainLog, 1, Len(trainLog) - 1) ELSE trainLog

IsMultiple(e) == e[2] % ReportEvery = 0

C5_Lines ==
    last = "train" =>
        /\ [k \in 1..Len(out) |-> <<out[k].epoch, out[k].step>>]
              = SelectSeq(Completed, IsMultiple)
        /\ \A k \in 1..Len(out) :
              /\ out[k].epoch \in 1..num_epochs
              /\ out[k].step \in 1..total_step
              /\ out[k].num_epochs = num_epochs
              /\ out[k].total_step = total_step
              /\ out[k].loss = LossOf(out[k].epoch, out[k].step,
                      entry[1] + (out[k].epoch - 1) * total_step + out[k].step - 1)

C5_Observational ==
    pc = "report" =>
        /\ UNCHANGED <<params, optimizer, grad, fitSrc, trainLog, epoch, loss>>
        /\ i' = i + 1
        /\ pc' = "batch_head"

\* C5: a progress line is printed for step s of epoch e exactly when s is a
\* multiple of 100; it carries e, s and the loss of that batch; printing
\* changes neither the batches processed nor the parameters.
C5_ProgressLines == []C5_Lines /\ [][C5_Observational]_vars

C5_Witness ==
    /\ TrainReturned
    /\ num_epochs = 2 /\ total_step = ReportEvery + 1
    /\ Len(out) = 2
    /\ out[2].epoch = 2 /\ out[2].step = ReportEvery

\* C6: with an empty test partition test() fails with a division-by-zero /
\* empty-partition error and prints no accuracy.
C6_EmptyTestFailsExplicitly ==
    (TestReturned /\ testN = 0) =>
        /\ printed.kind = "error"
        /\ printed.error \in {"ZeroDivisionError", "EmptyPartition"}

\* C7: conv1 + pool give 16x14x14, conv2 + pool give 32x7x7, the flattened
\* length is the 32*7*7 the Linear layer declares, and the scores of a batch
\* of K images have shape (K, 10); no layer raises.
C7_ShapeContract ==
    shpc # "off" =>
        /\ shErr = "none" /\ shpc # "raised"
        /\ x[1] \in 1..MaxK
        /\ shpc = "conv1.0" => x = <<x[1], 1, 28, 28>>
        /\ shpc \in {"conv1.1", "conv1.2"} => x = <<x[1], 16, 28, 28>>
        /\ shpc = "conv2.0" => x = <<x[1], 16, 14, 14>>
        /\ shpc \in {"conv2.1", "conv2.2"} => x = <<x[1], 32, 14, 14>>
        /\ shpc = "view" => x = <<x[1], 32, 7, 7>>
        /\ shpc = "out" => x = <<x[1], 1568>>
        /\ shpc = "return" => x = <<x[1], 10>>

C7_Witness == shpc = "return" /\ x = <<3, 10>>

\* C8: train(0, ...) runs no forward pass, no backward pass and no optimizer
\* step, prints nothing and leaves parameters and optimizer state as they were.
C8_ZeroEpochsIsIdentity ==
    (last = "train" /\ num_epochs = 0) =>
        /\ pc \in {"epoch_head", "idle"}
        /\ loss = Unbound
        /\ grad = <<>>
        /\ trainLog = <<>>
        /\ out = <<>>
        /\ <<params, optimizer>> = entry

C8_Witness == TrainReturned /\ num_epochs = 0 /\ total_step >= 2

BodyOrder ==
    /\ pc = "forward" => pc' = "zero_grad"
    /\ pc = "zero_grad" => pc' = "backward"
    /\ pc = "backward" => pc' = "step"
    /\ pc = "step" => pc' = "report"
    /\ pc' = "step" => pc = "backward"
    /\ pc' = "backward" => pc = "zero_grad"
    /\ pc' = "zero_grad" => pc = "forward"

FreshGradient ==
    pc = "step" =>
        /\ grad = <<loss>>
        /\ loss = LossOf(epoch + 1, i + 1, params)
        /\ params = entry[1] + epoch * total_step + i

\* what the batches of epoch e alone contribute to a metric, the epoch having
\* started with p updates applied
EpochTrain(e, p) ==
    [k \in 1..tfTrainLen |-> <<"train_ds", LossOf(e, k, p + k - 1)>>]

EpochTest(e, p) ==
    [k \in 1..tfTestLen |-> <<"test_ds", LossOf(e, k, p + tfTrainLen)>>]

\* C9: the four metrics are reset at the start of every epoch, so the line
\* printed at the end of epoch e aggregates exactly the train and test batches
\* of epoch e.
C9_MetricsPerEpoch ==
    /\ Len(tfOut) = tfEpoch
    /\ \A e \in 1..Len(tfOut) :
          /\ tfOut[e].epoch = e
          /\ tfOut[e].loss = EpochTrain(e, (e - 1) * tfTrainLen)
          /\ tfOut[e].accuracy = EpochTrain(e, (e - 1) * tfTrainLen)
          /\ tfOut[e].test_loss = EpochTest(e, (e - 1) * tfTrainLen)
          /\ tfOut[e].test_accuracy = EpochTest(e, (e - 1) * tfTrainLen)
    /\ tfpc = "train_loop" =>
          /\ test_loss = <<>> /\ test_accuracy = <<>>
          /\ Len(train_loss) = tfi /\ Len(train_accuracy) = tfi

C9_Witness ==
    /\ tfpc = "done"
    /\ Len(tfOut) = EPOCHS
    /\ tfTrainLen >= 2 /\ tfTestLen >= 2

\* C10: per batch the order is forward, loss, zero_grad, backward, step; the
\* gradient an optimizer step consumes is that of the current batch's loss
\* alone, taken at the parameters left by the previous update.
C10_GradientsOfCurrentBatchOnly == []FreshGradient /\ [][BodyOrder]_vars

C10_Witness ==
    /\ pc = "step"
    /\ epoch = 1 /\ i = 1
    /\ grad = <<LossOf(2, 2, total_step + 1)>>
====
